---- MODULE Spec2Model ----
(***************************************************************************)
(* Razel: the target pattern grammar (cli/src/target_pattern.rs), the      *)
(* 'build' command (cli/src/main.rs), the file system host                 *)
(* (cli/src/host/fs_host.rs) and the recursive lister                      *)
(* (cli/src/host/host.rs).                                                 *)
(*                                                                         *)
(* Text is a sequence of one-character strings.  A path is the sequence of *)
(* its segments; an absolute path starts with the root segment "/".        *)
(***************************************************************************)
EXTENDS Integers, Sequences, FiniteSets, TLC

VARIABLES
  op,         \* the operation that ran last ("init" before any)
  pattern,    \* target_pattern.rs: the text handed to TargetPattern::parse
  value,      \* target_pattern.rs: a TargetPattern value handed to Display
  text,       \* the text Display produced for 'value'
  result,     \* the Result of the last TargetPattern::parse
  args,       \* main.rs: the positional arguments of 'build'
  stdout,     \* main.rs: lines written by println!
  stderr,     \* main.rs: lines written by eprintln!
  exit,       \* main.rs: the ExitCode returned by main
  fs,         \* the file system under the host
  cwd,        \* the process' current directory (read by path::absolute)
  path,       \* fs_host.rs: the path argument of the host call
  npath,      \* fs_host.rs: the path handed to normalize
  ret,        \* the Result of the last host call
  io          \* the file system accesses the last host call performed

vars == <<op, pattern, value, text, result, args, stdout, stderr, exit,
          fs, cwd, path, npath, ret, io>>

(***************************************************************************)
(* Bounds.                                                                 *)
(***************************************************************************)
MaxLen == 7        \* longest pattern text handed to parse
MaxPkgLen == 2     \* longest package of a constructed TargetPattern
MaxNameLen == 3    \* longest target name of a constructed TargetPattern
MaxArgs == 3       \* most arguments of one 'build' command
MaxPathLen == 4    \* most segments of a path argument

Chars == {"/", ":", ".", "a", "l"}

StringsUpTo(n) == UNION {[1..k -> Chars] : k \in 0..n}

(***************************************************************************)
(* str helpers of the standard library, as target_pattern.rs uses them.    *)
(***************************************************************************)
starts_with(s, p) == Len(s) >= Len(p) /\ SubSeq(s, 1, Len(p)) = p

ends_with(s, p) ==
  Len(s) >= Len(p) /\ SubSeq(s, Len(s) - Len(p) + 1, Len(s)) = p

None == [some |-> FALSE, val |-> <<>>]
Some(v) == [some |-> TRUE, val |-> v]

strip_prefix(s, p) ==
  IF starts_with(s, p) THEN Some(SubSeq(s, Len(p) + 1, Len(s))) ELSE None

strip_suffix(s, p) ==
  IF ends_with(s, p) THEN Some(SubSeq(s, 1, Len(s) - Len(p))) ELSE None

\* str::split on a one-character separator: n separators give n+1 pieces.
RECURSIVE split(_, _)
split(s, c) ==
  IF \A i \in 1..Len(s) : s[i] # c
  THEN <<s>>
  ELSE LET i == CHOOSE k \in 1..Len(s) :
                  s[k] = c /\ \A j \in 1..(k - 1) : s[j] # c
       IN  <<SubSeq(s, 1, i - 1)>> \o split(SubSeq(s, i + 1, Len(s)), c)

IsSubstring(p, s) ==
  \E i \in 0..(Len(s) - Len(p)) : SubSeq(s, i + 1, i + Len(p)) = p

(***************************************************************************)
(* TargetPattern and PatternScope.                                         *)
(***************************************************************************)
SingleTarget(name) == [tag |-> "SingleTarget", name |-> name]
Package == [tag |-> "Package", name |-> <<>>]
Descendants == [tag |-> "Descendants", name |-> <<>>]

TargetPattern(package, scope) == [package |-> package, scope |-> scope]

ParseError(pre, arg, post) == [pre |-> pre, arg |-> arg, post |-> post]

Ok(v) == [ok |-> TRUE, val |-> v]
Err(e) == [ok |-> FALSE, err |-> e]

\* The three message tails of ParseError.  (A TLA+ string cannot hold a
\* backquote: the messages' backquotes are written as apostrophes.)
MissingPrefixText == "', target patterns must start with '//'."
MissingTargetText == "', target patterns must end with ':target' or '/...'."
TooManyColonsText == "', target patterns may contain at most one ':'."

\* The [ pattern ] arm keeping the /... suffix in the package.
parse_no_colon_keep_suffix(piece) ==
  IF ends_with(piece, <<"/", ".", ".", ".">>)
  THEN Ok(TargetPattern(piece, Descendants))
  ELSE Err(ParseError("Failed to parse '", piece, MissingTargetText))

\* The [ pattern ] arm of parse: the arm's binding 'pattern' is the only
\* piece of the split, and it is that binding the message interpolates.
parse_no_colon(piece) ==
  LET stripped == strip_suffix(piece, <<"/", ".", ".", ".">>)
  IN  IF stripped.some
      THEN Ok(TargetPattern(stripped.val, Descendants))
      ELSE Err(ParseError("Failed to parse '", piece, MissingTargetText))

\* The [ package, target ] arm without the test for the literal all.
parse_one_colon_no_all(package, target) ==
  Ok(TargetPattern(package, SingleTarget(target)))

\* The [ package, target ] arm of parse.
parse_one_colon(package, target) ==
  IF target = <<"a", "l", "l">>
  THEN Ok(TargetPattern(package, Package))
  ELSE Ok(TargetPattern(package, SingleTarget(target)))

parse(pat) ==
  LET without_leading_slashes == strip_prefix(pat, <<"/", "/">>)
  IN  IF ~without_leading_slashes.some
      THEN Err(ParseError("Failed to parse '", pat, MissingPrefixText))
      ELSE LET parts == split(without_leading_slashes.val, ":")
           IN  CASE Len(parts) = 1 -> parse_no_colon(parts[1])
                 [] Len(parts) = 2 -> parse_one_colon(parts[1], parts[2])
                 [] OTHER ->
                      Err(ParseError("Failed to parse '", pat,
                                     TooManyColonsText))

\* Display with the Package and Descendants suffixes exchanged.
fmt_swapped(t) ==
  CASE t.scope.tag = "SingleTarget" ->
         <<"/", "/">> \o t.package \o <<":">> \o t.scope.name
    [] t.scope.tag = "Package" ->
         <<"/", "/">> \o t.package \o <<"/", ".", ".", ".">>
    [] t.scope.tag = "Descendants" ->
         <<"/", "/">> \o t.package \o <<":", "a", "l", "l">>

\* impl Display for TargetPattern.
fmt(t) ==
  CASE t.scope.tag = "SingleTarget" ->
         <<"/", "/">> \o t.package \o <<":">> \o t.scope.name
    [] t.scope.tag = "Package" ->
         <<"/", "/">> \o t.package \o <<":", "a", "l", "l">>
    [] t.scope.tag = "Descendants" ->
         <<"/", "/">> \o t.package \o <<"/", ".", ".", ".">>

(***************************************************************************)
(* main.rs: the build command.                                             *)
(***************************************************************************)
is_ok(r) == r.ok
is_err(r) == ~r.ok

\* [String]::join on text.
RECURSIVE join(_, _)
join(strs, sep) ==
  IF Len(strs) = 0 THEN <<>>
  ELSE IF Len(strs) = 1 THEN strs[1]
  ELSE strs[1] \o sep \o join(Tail(strs), sep)

\* main reporting the first parse error only.
main_first_error(argv) ==
  LET results == [i \in 1..Len(argv) |-> parse(argv[i])]
      patterns == SelectSeq(results, is_ok)
      errors == SelectSeq(results, is_err)
  IN  IF Len(errors) # 0
      THEN [stdout |-> <<>>,
            stderr |-> << [pre |-> "ERROR: ", msg |-> errors[1].err] >>,
            exit |-> "FAILURE"]
      ELSE [stdout |-> << [pre |-> "Building targets: ",
                           body |-> join([i \in 1..Len(patterns) |->
                                            fmt(patterns[i].val)],
                                         <<" ">>)] >>,
            stderr |-> <<>>,
            exit |-> "SUCCESS"]

\* main, Command::Build arm: what it writes and the ExitCode it returns.
main(argv) ==
  LET results == [i \in 1..Len(argv) |-> parse(argv[i])]
      patterns == SelectSeq(results, is_ok)
      errors == SelectSeq(results, is_err)
  IN  IF Len(errors) # 0
      THEN [stdout |-> <<>>,
            stderr |-> [i \in 1..Len(errors) |->
                          [pre |-> "ERROR: ", msg |-> errors[i].err]],
            exit |-> "FAILURE"]
      ELSE [stdout |-> << [pre |-> "Building targets: ",
                           body |-> join([i \in 1..Len(patterns) |->
                                            fmt(patterns[i].val)],
                                         <<" ">>)] >>,
            stderr |-> <<>>,
            exit |-> "SUCCESS"]

(***************************************************************************)
(* Paths (std::path) as fs_host.rs uses them.                              *)
(***************************************************************************)
is_absolute(p) == Len(p) > 0 /\ p[1] = "/"

drop_cur_dir(p) == SelectSeq(p, LAMBDA c : c # ".")

\* Path::components: a "." segment is kept only at the head of a relative
\* path.
components(p) ==
  IF Len(p) > 0 /\ p[1] = "."
  THEN <<".">> \o drop_cur_dir(Tail(p))
  ELSE drop_cur_dir(p)

\* Path::join: an absolute argument replaces the base.
path_join(base, p) == IF is_absolute(p) THEN p ELSE base \o p

\* Path::starts_with compares whole components.
path_starts_with(p, base) == starts_with(components(p), components(base))

IoError(kind, msg) == [kind |-> kind, msg |-> msg]

\* One piece of a message: literal text, or the text of a path.
Lit(s) == [isPath |-> FALSE, lit |-> s, path |-> <<>>]
PathText(p) == [isPath |-> TRUE, lit |-> "", path |-> p]

NotFound == IoError("NotFound", <<Lit("No such file or directory (os error 2)")>>)
NotADirectory == IoError("NotADirectory", <<Lit("Not a directory (os error 20)")>>)
IsADirectory == IoError("IsADirectory", <<Lit("Is a directory (os error 21)")>>)
PermissionDenied == IoError("PermissionDenied", <<Lit("Permission denied (os error 13)")>>)
InvalidInput == IoError("InvalidInput", <<Lit("cannot make an empty path absolute")>>)

\* path::absolute: the current directory is put in front of a relative
\* path, "." segments are dropped and ".." segments are kept.
absolute(p) ==
  IF p = <<>> THEN Err(InvalidInput)
  ELSE IF is_absolute(p) THEN Ok(drop_cur_dir(p))
  ELSE Ok(drop_cur_dir(cwd \o p))

\* PathBuf::from_iter: each component is pushed; pushing the root replaces
\* what is there.
RECURSIVE from_iter(_)
from_iter(stack) ==
  IF stack = <<>> THEN <<>>
  ELSE LET c == stack[Len(stack)]
       IN  IF c = "/" THEN <<"/">>
           ELSE from_iter(SubSeq(stack, 1, Len(stack) - 1)) \o <<c>>

\* The loop of normalize: the root component "/" is pushed like a name, and
\* Vec::pop on an empty stack does nothing.
RECURSIVE normalize_loop(_, _)
normalize_loop(comps, stack) ==
  IF comps = <<>> THEN stack
  ELSE LET component == Head(comps)
       IN  IF component = "."
           THEN normalize_loop(Tail(comps), stack)
           ELSE IF component = ".."
           THEN normalize_loop(
                  Tail(comps),
                  IF stack = <<>> THEN stack
                  ELSE SubSeq(stack, 1, Len(stack) - 1))
           ELSE normalize_loop(Tail(comps), stack \o <<component>>)

normalize(p) ==
  LET abs == absolute(p)
  IN  IF ~abs.ok THEN abs
      ELSE Ok(from_iter(normalize_loop(components(abs.val), <<>>)))

(***************************************************************************)
(* The file system: a map from the absolute path of each node to the node. *)
(***************************************************************************)
File(contents) == [kind |-> "file", children |-> <<>>, contents |-> contents]
Dir(children) == [kind |-> "dir", children |-> children, contents |-> ""]
\* A directory the process may neither enumerate nor search.
Locked == [kind |-> "locked", children |-> <<>>, contents |-> ""]

\* The node a path names, as the operating system resolves it: a relative
\* path starts at the current directory.
lookup(p) ==
  LET q == IF is_absolute(p) THEN p ELSE cwd \o p
  IN  IF p = <<>> THEN Err(NotFound)
      ELSE IF q \in DOMAIN fs THEN Ok(fs[q])
      ELSE LET k == CHOOSE i \in 1..Len(q) :
                      /\ SubSeq(q, 1, i) \notin DOMAIN fs
                      /\ \A j \in 1..(i - 1) : SubSeq(q, 1, j) \in DOMAIN fs
               parent == SubSeq(q, 1, k - 1)
           IN  IF k = 1 THEN Err(NotFound)
               ELSE IF fs[parent].kind = "file" THEN Err(NotADirectory)
               ELSE IF fs[parent].kind = "locked" THEN Err(PermissionDenied)
               ELSE Err(NotFound)

\* std::fs::read_to_string
fs_read_to_string(p) ==
  LET n == lookup(p)
  IN  IF ~n.ok THEN n
      ELSE IF n.val.kind = "file" THEN Ok(n.val.contents)
      ELSE Err(IsADirectory)

\* std::fs::read_dir, with DirEntry::file_name and DirEntry::file_type of
\* each child.
fs_read_dir(p) ==
  LET n == lookup(p)
      q == IF is_absolute(p) THEN p ELSE cwd \o p
  IN  IF ~n.ok THEN n
      ELSE IF n.val.kind = "file" THEN Err(NotADirectory)
      ELSE IF n.val.kind = "locked" THEN Err(PermissionDenied)
      ELSE Ok([i \in 1..Len(n.val.children) |->
                 [file_name |-> n.val.children[i],
                  is_file |-> fs[q \o <<n.val.children[i]>>].kind = "file"]])

(***************************************************************************)
(* FsHost (fs_host.rs) and list_all_files (host.rs).  Each operation gives *)
(* its Result and the file system accesses it made.                        *)
(***************************************************************************)
wksp_root == <<"/", "ws">>

ExternalPathError(p) ==
  [kind |-> "ExternalPathError",
   msg |-> <<Lit("Path \""), PathText(p), Lit("\" is outside the workspace.")>>]

Entry(p, kind) == [path |-> p, kind |-> kind]

\* One access to the file system and how it ended.
Access(call, p, r) ==
  [call |-> call, path |-> p, ok |-> r.ok,
   err |-> IF r.ok THEN "" ELSE r.err.kind]

Outcome(r, accesses) == [ret |-> r, io |-> accesses]

\* read_to_string without the boundary check.
read_to_string_unchecked(p) ==
  LET resolved == normalize(path_join(wksp_root, p))
  IN  IF ~resolved.ok THEN Outcome(resolved, <<>>)
      ELSE Outcome(fs_read_to_string(resolved.val),
                   <<Access("read_to_string", resolved.val,
                            fs_read_to_string(resolved.val))>>)

read_to_string(p) ==
  LET resolved == normalize(path_join(wksp_root, p))
  IN  IF ~resolved.ok THEN Outcome(resolved, <<>>)
      ELSE IF ~path_starts_with(resolved.val, wksp_root)
      THEN Outcome(Err(ExternalPathError(p)), <<>>)
      ELSE Outcome(fs_read_to_string(resolved.val),
                   <<Access("read_to_string", resolved.val,
                            fs_read_to_string(resolved.val))>>)

\* list taking a missing directory for an empty one.
list_missing_as_empty(p) ==
  LET resolved == normalize(path_join(wksp_root, p))
  IN  IF ~resolved.ok THEN Outcome(resolved, <<>>)
      ELSE IF ~path_starts_with(resolved.val, wksp_root)
      THEN Outcome(Err(ExternalPathError(p)), <<>>)
      ELSE LET dir == fs_read_dir(resolved.val)
               accesses == <<Access("read_dir", resolved.val, dir)>>
           IN  IF ~dir.ok
               THEN IF dir.err = NotFound THEN Outcome(Ok(<<>>), accesses)
                    ELSE Outcome(dir, accesses)
               ELSE Outcome(
                      Ok([i \in 1..Len(dir.val) |->
                            Entry(path_join(p, <<dir.val[i].file_name>>),
                                  IF dir.val[i].is_file THEN "File"
                                  ELSE "Directory")]),
                      accesses)

list(p) ==
  LET resolved == normalize(path_join(wksp_root, p))
  IN  IF ~resolved.ok THEN Outcome(resolved, <<>>)
      ELSE IF ~path_starts_with(resolved.val, wksp_root)
      THEN Outcome(Err(ExternalPathError(p)), <<>>)
      ELSE LET dir == fs_read_dir(resolved.val)
               accesses == <<Access("read_dir", resolved.val, dir)>>
           IN  IF ~dir.ok THEN Outcome(dir, accesses)
               ELSE Outcome(
                      Ok([i \in 1..Len(dir.val) |->
                            Entry(path_join(p, <<dir.val[i].file_name>>),
                                  IF dir.val[i].is_file THEN "File"
                                  ELSE "Directory")]),
                      accesses)

\* Iterator::flatten over a sequence of sequences.
RECURSIVE flatten(_)
flatten(seqs) ==
  IF seqs = <<>> THEN <<>> ELSE Head(seqs) \o flatten(Tail(seqs))

\* Collecting Results while leaving out the ones that failed.
collect_results_skip_errors(rs) ==
  Ok([i \in 1..Len(SelectSeq(rs, is_ok)) |-> SelectSeq(rs, is_ok)[i].val])

\* Collecting Results into one Result: the first Err, else every value.
collect_results(rs) ==
  IF \E i \in 1..Len(rs) : ~rs[i].ok
  THEN rs[CHOOSE i \in 1..Len(rs) :
            ~rs[i].ok /\ \A j \in 1..(i - 1) : rs[j].ok]
  ELSE Ok([i \in 1..Len(rs) |-> rs[i].val])

\* list_all_files that does not descend into directories.
list_all_files_flat(p) ==
  LET listed == list(p)
  IN  IF ~listed.ret.ok THEN listed
      ELSE Outcome(Ok([i \in 1..Len(SelectSeq(listed.ret.val,
                                              LAMBDA e : e.kind = "File"))
                         |-> SelectSeq(listed.ret.val,
                                       LAMBDA e : e.kind = "File")[i].path]),
                   listed.io)

\* The value of body on v, with v computed once.
with(v, body(_)) == CHOOSE r \in {body(x) : x \in {v}} : TRUE

\* list_all_files: every entry is mapped (a directory by the recursive
\* call) into a Vec of Results before the Results are collected.
RECURSIVE list_all_files(_)
list_all_files(p) ==
  with(list(p), LAMBDA listed :
    IF ~listed.ret.ok THEN listed
    ELSE with([i \in 1..Len(listed.ret.val) |->
                 IF listed.ret.val[i].kind = "File"
                 THEN Outcome(Ok(<<listed.ret.val[i].path>>), <<>>)
                 ELSE list_all_files(listed.ret.val[i].path)],
              LAMBDA subs :
                with(collect_results([i \in 1..Len(subs) |-> subs[i].ret]),
                     LAMBDA all :
                       IF ~all.ok
                       THEN Outcome(all, listed.io \o flatten(
                              [i \in 1..Len(subs) |-> subs[i].io]))
                       ELSE Outcome(Ok(flatten(all.val)),
                                    listed.io \o flatten(
                                      [i \in 1..Len(subs) |-> subs[i].io])))))

(***************************************************************************)
(* Values the variables hold while their component has not run.            *)
(***************************************************************************)
NoPattern == TargetPattern(<<>>, Package)
NoResult == Err(ParseError("", <<>>, ""))

(***************************************************************************)
(* The target pattern grammar: a text is parsed; a value is formatted and  *)
(* the text parsed back.                                                   *)
(***************************************************************************)
Scopes ==
  {Package, Descendants} \cup {SingleTarget(n) : n \in StringsUpTo(MaxNameLen)}

TargetPatterns ==
  {TargetPattern(p, s) : p \in StringsUpTo(MaxPkgLen), s \in Scopes}

HostIdle ==
  /\ fs = <<>> /\ cwd = <<>> /\ path = <<>> /\ npath = <<>>
  /\ ret = <<>> /\ io = <<>>

BuildIdle ==
  /\ args = <<>> /\ stdout = <<>> /\ stderr = <<>> /\ exit = "none"

PatternIdle ==
  /\ pattern = <<>> /\ value = NoPattern /\ text = <<>> /\ result = NoResult

InitPattern ==
  /\ op = "init"
  /\ \/ pattern \in StringsUpTo(MaxLen) /\ value = NoPattern
     \/ pattern = <<>> /\ value \in TargetPatterns
  /\ text = <<>>
  /\ result = NoResult
  /\ BuildIdle
  /\ HostIdle

\* TargetPattern::parse(pattern)
Parse ==
  /\ op = "init"
  /\ op' = "parse"
  /\ result' = parse(pattern)
  /\ UNCHANGED <<pattern, value, text, args, stdout, stderr, exit,
                 fs, cwd, path, npath, ret, io>>

\* format!("{}", value)
Format ==
  /\ op = "init"
  /\ op' = "fmt"
  /\ text' = fmt(value)
  /\ UNCHANGED <<pattern, value, result, args, stdout, stderr, exit,
                 fs, cwd, path, npath, ret, io>>

\* TargetPattern::parse(&format!("{}", value))
ParseFormatted ==
  /\ op = "fmt"
  /\ op' = "reparse"
  /\ pattern' = text
  /\ result' = parse(text)
  /\ UNCHANGED <<value, text, args, stdout, stderr, exit,
                 fs, cwd, path, npath, ret, io>>

\* format!("{}", TargetPattern::parse(pattern)?)
FormatParsed ==
  /\ op = "parse"
  /\ result.ok
  /\ op' = "refmt"
  /\ value' = result.val
  /\ text' = fmt(result.val)
  /\ UNCHANGED <<pattern, result, args, stdout, stderr, exit,
                 fs, cwd, path, npath, ret, io>>

NextPattern == Parse \/ Format \/ ParseFormatted \/ FormatParsed

SpecPattern == InitPattern /\ [][NextPattern]_vars

(***************************************************************************)
(* The build command run on a list of arguments.                           *)
(***************************************************************************)
BuildPatterns ==
  { <<"/", "/", "a", ":", "l">>,          \* //a:l
    <<"/", "/", "a", "/", ".", ".", ".">>, \* //a/...
    <<"a", ":", "l">>,                     \* a:l    (no leading //)
    <<"/", "/", "a">>,                     \* //a    (no target)
    <<"/", "/", "a", ":", ":">> }          \* //a::  (two colons)

ArgLists == UNION {[1..k -> BuildPatterns] : k \in 0..MaxArgs}

InitBuild ==
  /\ op = "init"
  /\ args \in ArgLists
  /\ stdout = <<>> /\ stderr = <<>> /\ exit = "none"
  /\ PatternIdle
  /\ HostIdle

\* razel build args...
Build ==
  /\ op = "init"
  /\ op' = "build"
  /\ stdout' = main(args).stdout
  /\ stderr' = main(args).stderr
  /\ exit' = main(args).exit
  /\ UNCHANGED <<pattern, value, text, result, args, fs, cwd, path, npath, ret, io>>

NextBuild == Build

SpecBuild == InitBuild /\ [][NextBuild]_vars

(***************************************************************************)
(* The host run on a file system: one call of read_to_string, list,        *)
(* list_all_files or normalize on a path, and normalize on its own result. *)
(***************************************************************************)
Outside == (<<"/">> :> Dir(<<"ws", "out">>))
           @@ (<<"/", "out">> :> Dir(<<"f">>))
           @@ (<<"/", "out", "f">> :> File("outside"))

\* ws/f, ws/d/f, ws/d/e (empty), ws/d/d/f
FsTree ==
  Outside
  @@ (<<"/", "ws">> :> Dir(<<"f", "d">>))
  @@ (<<"/", "ws", "f">> :> File("ws/f"))
  @@ (<<"/", "ws", "d">> :> Dir(<<"f", "e", "d">>))
  @@ (<<"/", "ws", "d", "f">> :> File("ws/d/f"))
  @@ (<<"/", "ws", "d", "e">> :> Dir(<<>>))
  @@ (<<"/", "ws", "d", "d">> :> Dir(<<"f">>))
  @@ (<<"/", "ws", "d", "d", "f">> :> File("ws/d/d/f"))

\* The same tree with ws/d/e closed to the process.
FsLocked == [q \in DOMAIN FsTree |->
               IF q = <<"/", "ws", "d", "e">> THEN Locked ELSE FsTree[q]]

\* An empty workspace.
FsEmpty == Outside @@ (<<"/", "ws">> :> Dir(<<>>))

FileSystems == {FsTree, FsLocked, FsEmpty}

Segments == {".", "..", "ws", "out", "f", "d"}

RelativePaths(n) == UNION {[1..k -> Segments] : k \in 0..n}

PathArgs ==
  RelativePaths(MaxPathLen)
  \cup {<<"/">> \o p : p \in RelativePaths(MaxPathLen - 1)}

WorkingDirs == {<<"/">>, <<"/", "ws", "d">>}

InitHost ==
  /\ op = "init"
  /\ fs \in FileSystems
  /\ cwd \in WorkingDirs
  /\ path \in PathArgs
  /\ npath = <<>>
  /\ ret = <<>>
  /\ io = <<>>
  /\ PatternIdle
  /\ BuildIdle

\* host.read_to_string(path)
ReadToString ==
  /\ op = "init"
  /\ op' = "read_to_string"
  /\ ret' = read_to_string(path).ret
  /\ io' = read_to_string(path).io
  /\ UNCHANGED <<pattern, value, text, result, args, stdout, stderr, exit,
                 fs, cwd, path, npath>>

\* host.list(path)
List ==
  /\ op = "init"
  /\ op' = "list"
  /\ ret' = list(path).ret
  /\ io' = list(path).io
  /\ UNCHANGED <<pattern, value, text, result, args, stdout, stderr, exit,
                 fs, cwd, path, npath>>

\* list_all_files(&host, path)
ListAllFiles ==
  /\ op = "init"
  /\ op' = "list_all_files"
  /\ ret' = list_all_files(path).ret
  /\ io' = list_all_files(path).io
  /\ UNCHANGED <<pattern, value, text, result, args, stdout, stderr, exit,
                 fs, cwd, path, npath>>

\* normalize(&self.wksp_root.join(path)), the call the host makes
Normalize ==
  /\ op = "init"
  /\ op' = "normalize"
  /\ npath' = path_join(wksp_root, path)
  /\ ret' = normalize(path_join(wksp_root, path))
  /\ io' = <<>>
  /\ UNCHANGED <<pattern, value, text, result, args, stdout, stderr, exit,
                 fs, cwd, path>>

\* normalize applied to the path the first normalize returned
NormalizeAgain ==
  /\ op = "normalize"
  /\ ret.ok
  /\ op' = "normalize_again"
  /\ npath' = ret.val
  /\ ret' = normalize(ret.val)
  /\ io' = <<>>
  /\ UNCHANGED <<pattern, value, text, result, args, stdout, stderr, exit,
                 fs, cwd, path>>

NextHost == ReadToString \/ List \/ ListAllFiles \/ Normalize \/ NormalizeAgain

SpecHost == InitHost /\ [][NextHost]_vars

(***************************************************************************)
(* Properties of the target pattern grammar.                               *)
(***************************************************************************)
HasColon(s) == \E i \in 1..Len(s) : s[i] = ":"

\* A value whose text the grammar can hold: no colon in the package or in
\* the target name, and no single target named all.
Addressable(t) ==
  /\ ~HasColon(t.package)
  /\ t.scope.tag = "SingleTarget" =>
       ~HasColon(t.scope.name) /\ t.scope.name # <<"a", "l", "l">>

\* C2 as stated: every constructible TargetPattern, formatted and parsed
\* back, gives the value again.
RoundTripEveryValue ==
  op = "reparse" => result = Ok(value)

\* C2 amended: a TargetPattern whose package holds no colon and whose scope
\* is Package, Descendants or SingleTarget(name) with name free of colons
\* and other than all, formatted and parsed back, gives the value again.
RoundTripAddressable ==
  (op = "reparse" /\ Addressable(value)) => result = Ok(value)

RoundTripWitness ==
  /\ op = "reparse"
  /\ Addressable(value)
  /\ value.scope.tag = "SingleTarget"
  /\ Len(value.scope.name) = MaxNameLen
  /\ Len(value.package) > 0
  /\ result = Ok(value)

\* The outcome the rules of the grammar give a text, by counting colons.
ColonsAt(s) == {i \in 1..Len(s) : s[i] = ":"}

RuleOutcome(pat, r) ==
  IF ~(Len(pat) >= 2 /\ pat[1] = "/" /\ pat[2] = "/")
  THEN ~r.ok /\ r.err.post = MissingPrefixText
  ELSE LET rem == SubSeq(pat, 3, Len(pat))
           n == Cardinality(ColonsAt(rem))
           dots == Len(rem) >= 4 /\ rem[Len(rem) - 3] = "/"
                   /\ \A k \in 0..2 : rem[Len(rem) - k] = "."
       IN  /\ (n = 0 /\ dots) =>
                r = Ok(TargetPattern(SubSeq(rem, 1, Len(rem) - 4),
                                     Descendants))
           /\ (n = 0 /\ ~dots) =>
                ~r.ok /\ r.err.post = MissingTargetText
           /\ n = 1 =>
                LET c == CHOOSE i \in ColonsAt(rem) : TRUE
                    left == SubSeq(rem, 1, c - 1)
                    right == SubSeq(rem, c + 1, Len(rem))
                IN  /\ right = <<"a", "l", "l">> =>
                         r = Ok(TargetPattern(left, Package))
                    /\ right # <<"a", "l", "l">> =>
                         r = Ok(TargetPattern(left, SingleTarget(right)))
           /\ n >= 2 => ~r.ok /\ r.err.post = TooManyColonsText

\* C3: parse applies its rules in order (prefix, then the colon count of
\* the remainder) and never returns SingleTarget("all").
ParseFollowsRules ==
  op = "parse" =>
    /\ RuleOutcome(pattern, result)
    /\ result.ok => result.val.scope # SingleTarget(<<"a", "l", "l">>)

ParseFollowsRulesWitness ==
  /\ op = "parse"
  /\ result.ok
  /\ result.val.scope = Package
  /\ pattern = <<"/", "/", ":", "a", "l", "l">>

\* C4: the message of every error of parse holds the whole text that was
\* handed to parse.
ErrorCarriesInput ==
  (op = "parse" /\ ~result.ok) => IsSubstring(pattern, result.err.arg)

\* C12: formatting the value parse returns for a text gives the text back,
\* character for character: //package:name, //package:all, //package/...
FormatInvertsParse ==
  op = "refmt" =>
    /\ text = pattern
    /\ value.scope.tag = "SingleTarget" =>
         pattern = <<"/", "/">> \o value.package \o <<":">>
                     \o value.scope.name
    /\ value.scope.tag = "Package" =>
         pattern = <<"/", "/">> \o value.package \o <<":", "a", "l", "l">>
    /\ value.scope.tag = "Descendants" =>
         pattern = <<"/", "/">> \o value.package \o <<"/", ".", ".", ".">>

\* The text //: has an empty package and an empty target name.
FormatInvertsParseWitness ==
  /\ op = "refmt"
  /\ pattern = <<"/", "/", ":">>
  /\ value = TargetPattern(<<>>, SingleTarget(<<>>))
  /\ text = pattern

(***************************************************************************)
(* Properties of the host.                                                 *)
(***************************************************************************)
\* Lexical reduction of an absolute path that never leaves the root: ".."
\* at the root stays at the root.
RECURSIVE Reduce(_, _)
Reduce(comps, stack) ==
  IF comps = <<>> THEN stack
  ELSE LET component == Head(comps)
       IN  IF component = "."
           THEN Reduce(Tail(comps), stack)
           ELSE IF component = ".."
           THEN Reduce(
                  Tail(comps),
                  IF stack = <<>> \/ stack = <<"/">> THEN stack
                  ELSE SubSeq(stack, 1, Len(stack) - 1))
           ELSE Reduce(Tail(comps),
                                         stack \o <<component>>)

LexicalNormalization(p) == Reduce(drop_cur_dir(p), <<>>)

\* The directory or file the argument names, reduced lexically.
Target == LexicalNormalization(path_join(wksp_root, path))

\* C1: a read_to_string or list whose path, joined to the root and
\* normalized lexically, is not under the root fails with
\* ExternalPathError without touching the file system; every path a host
\* call reads or enumerates is under the root.
SandboxInvariant ==
  /\ (op \in {"read_to_string", "list"} /\ ~starts_with(Target, wksp_root))
       => /\ ~ret.ok
          /\ ret.err.kind = "ExternalPathError"
          /\ io = <<>>
  /\ op \in {"read_to_string", "list", "list_all_files"}
       => \A i \in 1..Len(io) : starts_with(io[i].path, wksp_root)

SandboxWitness ==
  /\ op = "read_to_string"
  /\ path = <<"..", "out", "f">>
  /\ fs[Target].kind = "file"
  /\ ~ret.ok
  /\ ret.err.kind = "ExternalPathError"
  /\ io = <<>>

\* The files at any depth under the directory, each as the argument joined
\* with the file's location in the directory.
FilesUnder(dir) ==
  {q \in DOMAIN fs :
     fs[q].kind = "file" /\ Len(q) > Len(dir) /\ starts_with(q, dir)}

ExpectedFiles ==
  {path \o SubSeq(q, Len(Target) + 1, Len(q)) : q \in FilesUnder(Target)}

\* C5: when no list call fails, list_all_files returns exactly the files
\* at any depth under the path, each once and no directory; for an empty
\* directory it returns the empty sequence.
ListingComplete ==
  (op = "list_all_files" /\ ret.ok) =>
    /\ {ret.val[i] : i \in 1..Len(ret.val)} = ExpectedFiles
    /\ Len(ret.val) = Cardinality(ExpectedFiles)
    /\ fs[Target].children = <<>> => ret.val = <<>>

ListingCompleteWitness ==
  /\ op = "list_all_files"
  /\ ret.ok
  /\ path = <<"d">>
  /\ Len(ret.val) = 2
  /\ <<"d", "d", "f">> \in {ret.val[i] : i \in 1..Len(ret.val)}
  /\ \E i \in 1..Len(io) : io[i].path = <<"/", "ws", "d", "e">>

\* C6: when the list call on the path or on a directory reached from it
\* fails, list_all_files returns the error of a failed call and no files.
ListingFailsAtomically ==
  (op = "list_all_files"
     /\ (~list(path).ret.ok \/ \E i \in 1..Len(io) : ~io[i].ok)) =>
    /\ ~ret.ok
    /\ \/ ret = list(path).ret
       \/ \E i \in 1..Len(io) : ~io[i].ok /\ io[i].err = ret.err.kind

\* ws/d/e fails between ws/d/f and ws/d/d, which are both read.
ListingFailsAtomicallyWitness ==
  /\ op = "list_all_files"
  /\ path = <<>>
  /\ ~ret.ok
  /\ ret.err.kind = "PermissionDenied"
  /\ \E i, j, k \in 1..Len(io) :
       /\ i < j /\ j < k
       /\ io[i].ok /\ ~io[j].ok /\ io[k].ok
       /\ io[k].path = <<"/", "ws", "d", "d">>

\* A message names a path when one of its pieces is the text of the path.
References(msg, p) == \E i \in 1..Len(msg) : msg[i].isPath /\ msg[i].path = p

\* The path is accepted by the host and its first missing component lies
\* in a directory.
MissingInside ==
  /\ normalize(path_join(wksp_root, path)).ok
  /\ path_starts_with(normalize(path_join(wksp_root, path)).val, wksp_root)
  /\ Target \notin DOMAIN fs
  /\ \A k \in 1..Len(Target) :
       SubSeq(Target, 1, k) \in DOMAIN fs
         => fs[SubSeq(Target, 1, k)].kind = "dir"

EntriesWorkspaceRelative ==
  (op = "list" /\ ret.ok) =>
    /\ Len(ret.val) = Len(fs[Target].children)
    /\ {ret.val[i].path : i \in 1..Len(ret.val)}
         = {path \o <<fs[Target].children[i]>> :
              i \in 1..Len(fs[Target].children)}
    /\ \A i \in 1..Len(ret.val) :
         /\ ~is_absolute(ret.val[i].path)
         /\ \A c \in 1..Len(fs[Target].children) :
              ret.val[i].path # Target \o <<fs[Target].children[c]>>

\* C9: normalize applied to its own result returns that result.
NormalizeIdempotent ==
  op = "normalize_again" => ret = Ok(npath)

\* C11: ".." at the root keeps the root: normalize of an absolute path gives
\* the absolute path without "." and ".." that lexical reduction gives, and
\* a read_to_string or list whose path climbs above the root and comes back
\* under the workspace root is not refused as outside the workspace.
ParentOfRootIsRoot ==
  /\ op = "normalize" =>
       /\ ret.ok
       /\ is_absolute(ret.val)
       /\ \A i \in 1..Len(ret.val) : ret.val[i] \notin {".", ".."}
       /\ ret.val = LexicalNormalization(npath)
  /\ (op \in {"read_to_string", "list"} /\ starts_with(Target, wksp_root))
       => (ret.ok \/ ret.err.kind # "ExternalPathError")

(***************************************************************************)
(* Properties of the build command.                                        *)
(***************************************************************************)
Failing == {i \in 1..Len(args) : ~parse(args[i]).ok}

\* The lines of stderr are the messages of the failing arguments, one
\* each, in argument order.
ReportsEveryFailure ==
  /\ Len(stderr) = Cardinality(Failing)
  /\ \E f \in [1..Len(stderr) -> 1..Len(args)] :
       /\ \A i, j \in 1..Len(stderr) : i < j => f[i] < f[j]
       /\ {f[i] : i \in 1..Len(stderr)} = Failing
       /\ \A i \in 1..Len(stderr) :
            stderr[i] = [pre |-> "ERROR: ", msg |-> parse(args[f[i]]).err]

\* C10: build reports the message of every failing argument in order,
\* fails and prints no Building targets line; with no failing argument it
\* prints the parsed patterns and succeeds.
BuildReportsAllErrors ==
  op = "build" =>
    IF Failing # {}
    THEN exit = "FAILURE" /\ stdout = <<>> /\ ReportsEveryFailure
    ELSE /\ exit = "SUCCESS"
         /\ stderr = <<>>
         /\ Len(stdout) = 1
         /\ stdout[1].pre = "Building targets: "
         /\ \A i \in 1..Len(args) :
              IsSubstring(fmt(parse(args[i]).val), stdout[1].body)

BuildReportsAllErrorsWitness ==
  /\ op = "build"
  /\ Len(args) = 3
  /\ Cardinality(Failing) = 2
  /\ parse(args[1]).ok
  /\ Len(stderr) = 2
  /\ stderr[1] # stderr[2]

====
